---- MODULE Spec2Model ----
(***************************************************************************)
(* Model of dslx-watch-tui (src/src/main.rs): the App record, the          *)
(* four-stage pipeline of App::run_conversion, the entry-point extraction  *)
(* of App::update_entry_points and the event loop of main.                 *)
(*                                                                         *)
(* Texts are sequences of one-character strings.  A byte that is not valid *)
(* UTF-8 is the token "xFF"; String::from_utf8_lossy turns it into the     *)
(* token "uFFFD" (U+FFFD).  Option<T> is a sequence of length 0 (None) or  *)
(* 1 (Some).  The external tools, the file watcher and the keyboard are    *)
(* the environment: their results are drawn from the small sets below.     *)
(* Every external tool invocation blocks the loop thread, so              *)
(* run_conversion is split at the invocations: one step per stage, with    *)
(* the watcher thread free to act in between.                              *)
(***************************************************************************)
EXTENDS Integers, Sequences, FiniteSets, TLC

VARIABLES
    code,            \* App.code
    unopt_ir,        \* App.unopt_ir
    opt_ir,          \* App.opt_ir
    delay_info,      \* App.delay_info
    error_message,   \* App.error_message : Option<String>
    selected_tab,    \* App.selected_tab
    tests_passed,    \* App.tests_passed : Option<bool>
    test_output,     \* App.test_output : Option<String>
    entry_points,    \* App.entry_points : Vec<String>
    selected_entry,  \* App.selected_entry
    last_update,     \* App.last_update : Option<String>
    top_arg,         \* run_conversion's local top_arg (None outside its scope)
    disk,            \* content of the watched file on disk
    unopt_file,      \* content of <path>.unopt.ir (Option: absent)
    opt_file,        \* content of <path>.opt.ir (Option: absent)
    rx,              \* the mpsc channel from the watcher thread
    terminal,        \* "raw" (raw mode + alternate screen) or "restored"
    pc,              \* position of the loop thread
    caller,          \* which call site of check_and_run_conversion is active
    exit_status,     \* "running", "ok" (Ok(())), "err" (Err via ?), "panic"
    run,             \* history of the pipeline run in progress or just returned
    last_run,        \* result of the most recently completed run
    iter_log         \* events taken in the current loop iteration

appvars == <<code, unopt_ir, opt_ir, delay_info, error_message, selected_tab,
             tests_passed, test_output, entry_points, selected_entry,
             last_update>>

envvars == <<disk, unopt_file, opt_file, rx, terminal>>

vars == <<code, unopt_ir, opt_ir, delay_info, error_message, selected_tab,
          tests_passed, test_output, entry_points, selected_entry,
          last_update, top_arg, disk, unopt_file, opt_file, rx, terminal,
          pc, caller, exit_status, run, last_run, iter_log>>

----------------------------------------------------------------------------
(* Bounds and environment value sets *)

MaxQueue == 2

None == <<>>

Some(x) == <<x>>

IsSome(o) == Len(o) = 1

\* contents the watched file can have
FileContents == {<<"dslx1">>, <<"dslx2">>}

\* what chrono::Local::now().format(..) can yield
Timestamps == {"t1"}

\* notifications the watcher can deliver: Ok(Event{kind: Modify(_)}) and
\* "Other", which stands for Ok(Event) of another kind and for Err(_): the
\* if-let of lines 368-371 sends both down the same (empty) branch
EventResults == {"Modify", "Other"}

\* a Modify notification carrying a mark, by which one notification can be
\* followed through the channel; the code cannot tell it from "Modify"
Marked == "Modify*"

\* the pattern Ok(Event { kind: notify::EventKind::Modify(_), .. })
IsModify(e) == e \in {"Modify", Marked}

\* captured stdout of ir_converter_main (raw bytes)
IrNone == <<"xFF", "\n">>

IrAB == <<"f","n"," ","a","\n","f","n"," ","b","\n">>

IrABC == <<"f","n"," ","a","\n"," ","f","n"," ","x","\n","f","n"," ","b","\n","f","n"," ","c">>

TranslateStdouts == {IrNone, IrAB, IrABC}

OptStdouts == {<<"o","1">>, <<"o","2">>}

DelayStdouts == {<<"d","1">>}

InterpStdouts == {<<>>, <<"o","k">>}

\* captured stderr of any tool (raw bytes)
Stderrs == {<<"e","xFF">>}

WordChars == {"a","b","c","d","e","f","g","h","i","j","k","l","m","n","o","p",
              "q","r","s","t","u","v","w","x","y","z","0","1","2","3","4","5",
              "6","7","8","9","_"}

Stages == <<"translate", "optimize", "analyze", "test">>


----------------------------------------------------------------------------
(* Pure helpers *)

\* String::from_utf8_lossy(..).to_string(): invalid bytes become U+FFFD
FromUtf8Lossy(bytes) ==
    [i \in 1..Len(bytes) |-> IF bytes[i] = "xFF" THEN "uFFFD" ELSE bytes[i]]

\* the tool names used in the format! strings of run_conversion
IrConverterName == <<"i","r","_","c","o","n","v","e","r","t","e","r","_","m","a","i","n">>

OptName == <<"o","p","t","_","m","a","i","n">>

DelayName == <<"d","e","l","a","y","_","i","n","f","o","_","m","a","i","n">>

InterpName == <<"d","s","l","x","_","i","n","t","e","r","p","r","e","t","e","r","_","m","a","i","n">>

\* format!("<tool>: {}", String::from_utf8_lossy(&output.stderr))
FormatError(tool, stderr) == tool \o <<":", " ">> \o FromUtf8Lossy(stderr)

\* the fallback pushed when the regex finds nothing
FallbackEntry == <<"m","a","i","n">>

\* mutant: the pattern has lost its ^ anchor
MutMatchAtUnanchored(text, i) ==
    /\ i + 3 <= Len(text)
    /\ text[i] = "f"
    /\ text[i + 1] = "n"
    /\ text[i + 2] = " "
    /\ text[i + 3] \in WordChars

\* (?m)^fn (\w+) matches at index i: line start, "fn", one space, a word char
MatchAt(text, i) ==
    /\ (i = 1 \/ text[i - 1] = "\n")
    /\ i + 3 <= Len(text)
    /\ text[i] = "f"
    /\ text[i + 1] = "n"
    /\ text[i + 2] = " "
    /\ text[i + 3] \in WordChars

RECURSIVE WordRunEnd(_, _)
\* \w+ is greedy: first index at or after i that is not a word character
WordRunEnd(text, i) ==
    IF i <= Len(text) /\ text[i] \in WordChars
    THEN WordRunEnd(text, i + 1)
    ELSE i

RECURSIVE Captures(_, _)
\* re.captures_iter: successive non-overlapping matches, cap[1] of each
Captures(text, i) ==
    IF i > Len(text)
    THEN <<>>
    ELSE IF MatchAt(text, i)
         THEN LET e == WordRunEnd(text, i + 3)
              IN  <<SubSeq(text, i + 3, e - 1)>> \o Captures(text, e)
         ELSE Captures(text, i + 1)

\* mutant: the fallback push of lines 64-66 is missing
MutExtractNoFallback(text) == Captures(text, 1)

\* lines 59-66: the matches, or ["main"] when there are none
ExtractEntryPoints(text) ==
    LET matches == Captures(text, 1)
    IN  IF matches = <<>> THEN <<FallbackEntry>> ELSE matches

\* mutant: an index past the end is moved to the last element
MutClampToLast(sel, eps) == IF sel >= Len(eps) THEN Len(eps) - 1 ELSE sel

\* lines 68-70: an index past the end is reset to 0
ClampSelected(sel, eps) == IF sel >= Len(eps) THEN 0 ELSE sel

\* App::update_entry_points on unopt_ir = ir, selected_entry = sel
UpdateEntryPoints(ir, sel) ==
    LET eps == ExtractEntryPoints(ir)
    IN  [entry_points |-> eps, selected_entry |-> ClampSelected(sel, eps)]

\* where control goes when run_conversion returns to its call site
ReturnPc(site) == IF site = "reload" THEN "key" ELSE "draw"

NoRun == [active |-> FALSE, stages |-> <<>>, failed |-> "none",
          pre |-> None, out_unopt |-> None, out_opt |-> None]

----------------------------------------------------------------------------
(* Initial state: main after lines 218-226 (terminal in raw mode, watcher   *)
(* registered) and App::new() (lines 39-55).                                *)

Init ==
    /\ code = <<>>
    /\ unopt_ir = <<>>
    /\ opt_ir = <<>>
    /\ delay_info = <<>>
    /\ error_message = None
    /\ selected_tab = 0
    /\ tests_passed = None
    /\ test_output = None
    /\ entry_points = <<>>
    /\ selected_entry = 0
    /\ last_update = None
    /\ top_arg = None
    /\ disk \in FileContents
    /\ unopt_file = None
    /\ opt_file = None
    /\ rx = <<>>
    /\ terminal = "raw"
    /\ pc = "boot"
    /\ caller = "none"
    /\ exit_status = "running"
    /\ run = NoRun
    /\ last_run = "none"
    /\ iter_log = <<>>

----------------------------------------------------------------------------
(* App::check_and_run_conversion up to the translator invocation *)

\* mutant: line 74 (tests_passed = Some(false)) is missing
MutCheckAndRunNoReset(sel, site) ==
    LET u == UpdateEntryPoints(unopt_ir, sel)
    IN  /\ entry_points' = u.entry_points
        /\ selected_entry' = u.selected_entry
        /\ UNCHANGED tests_passed
        /\ top_arg' = None
        /\ pc' = "translate"
        /\ caller' = site
        /\ run' = [active |-> TRUE, stages |-> <<>>, failed |-> "none",
                   pre |-> Some([unopt_ir |-> unopt_ir,
                                 opt_ir |-> opt_ir,
                                 delay_info |-> delay_info,
                                 tests_passed |-> tests_passed,
                                 entry_points |-> u.entry_points]),
                   out_unopt |-> None, out_opt |-> None]

\* lines 175-178 and 73-86: update_entry_points(), tests_passed = Some(false),
\* then ir_converter_main is started.  sel is selected_entry at the call.
CheckAndRunConversion(sel, site) ==
    LET u == UpdateEntryPoints(unopt_ir, sel)
    IN  /\ entry_points' = u.entry_points
        /\ selected_entry' = u.selected_entry
        /\ tests_passed' = Some(FALSE)
        /\ top_arg' = None
        /\ pc' = "translate"
        /\ caller' = site
        /\ run' = [active |-> TRUE, stages |-> <<>>, failed |-> "none",
                   pre |-> Some([unopt_ir |-> unopt_ir,
                                 opt_ir |-> opt_ir,
                                 delay_info |-> delay_info,
                                 tests_passed |-> tests_passed,
                                 entry_points |-> u.entry_points]),
                   out_unopt |-> None, out_opt |-> None]

\* a stage exited non-zero: lines 88-93 / 112-117 / 134-139 / 165-170
StageFailed(stage, tool, stderr) ==
    /\ error_message' = Some(FormatError(tool, stderr))
    /\ tests_passed' = Some(FALSE)
    /\ pc' = ReturnPc(caller)
    /\ top_arg' = None
    /\ run' = [run EXCEPT !.active = FALSE,
                          !.stages = Append(@, stage),
                          !.failed = stage]
    /\ last_run' = "failed"

\* the process ends: main returns (Ok or Err via ?) or unwinds from a panic.
\* app, rx and the watcher are dropped; the files and the terminal mode stay
Exit(status) ==
    /\ pc' = "exited"
    /\ exit_status' = status
    /\ code' = <<>>
    /\ unopt_ir' = <<>>
    /\ opt_ir' = <<>>
    /\ delay_info' = <<>>
    /\ error_message' = None
    /\ selected_tab' = 0
    /\ tests_passed' = None
    /\ test_output' = None
    /\ entry_points' = <<>>
    /\ selected_entry' = 0
    /\ last_update' = None
    /\ top_arg' = None
    /\ rx' = <<>>
    /\ caller' = "none"
    /\ run' = NoRun
    /\ last_run' = "none"
    /\ iter_log' = <<>>

----------------------------------------------------------------------------
(* Stage 1: ir_converter_main, lines 84-103 *)

\* mutant: the return of line 93 is missing, opt_main is started anyway
MutTranslateFailNoReturn(stderr) ==
    /\ pc = "translate"
    /\ error_message' = Some(FormatError(IrConverterName, stderr))
    /\ tests_passed' = Some(FALSE)
    /\ pc' = "optimize"
    /\ run' = [run EXCEPT !.stages = Append(@, "translate"),
                          !.failed = "translate"]
    /\ UNCHANGED <<code, unopt_ir, opt_ir, delay_info, selected_tab,
                   test_output, entry_points, selected_entry, last_update,
                   top_arg, envvars, caller, exit_status, last_run,
                   iter_log>>

\* mutant: the failure branch stores the (empty) stdout as the new artifact
MutTranslateFailStoresOutput(stderr) ==
    /\ pc = "translate"
    /\ StageFailed("translate", IrConverterName, stderr)
    /\ unopt_ir' = <<>>
    /\ UNCHANGED <<code, opt_ir, delay_info, selected_tab, test_output,
                   entry_points, selected_entry, last_update, envvars,
                   caller, exit_status, iter_log>>

TranslateFail(stderr) ==
    /\ pc = "translate"
    /\ StageFailed("translate", IrConverterName, stderr)
    /\ UNCHANGED <<code, unopt_ir, opt_ir, delay_info, selected_tab,
                   test_output, entry_points, selected_entry, last_update,
                   envvars, caller, exit_status, iter_log>>

\* mutant: the unoptimized text is not written to <path>.unopt.ir
MutTranslateOkNoWrite(stdout) ==
    LET ir == FromUtf8Lossy(stdout)
        u == UpdateEntryPoints(ir, selected_entry)
    IN  /\ pc = "translate"
        /\ error_message' = None
        /\ unopt_ir' = ir
        /\ entry_points' = u.entry_points
        /\ selected_entry' = u.selected_entry
        /\ top_arg' = Some(u.entry_points[u.selected_entry + 1])
        /\ pc' = "optimize"
        /\ run' = [run EXCEPT !.stages = Append(@, "translate"),
                              !.out_unopt = Some(ir)]
        /\ UNCHANGED <<code, opt_ir, delay_info, selected_tab, tests_passed,
                       test_output, last_update, disk, unopt_file, opt_file,
                       rx, terminal, caller, exit_status, last_run, iter_log>>

\* mutant: update_entry_points is not called after the translator succeeded
\* (line 98 missing)
MutTranslateOkNoUpdate(stdout) ==
    LET ir == FromUtf8Lossy(stdout)
    IN  /\ pc = "translate"
        /\ error_message' = None
        /\ unopt_ir' = ir
        /\ unopt_file' = Some(ir)
        /\ top_arg' = Some(entry_points[selected_entry + 1])
        /\ pc' = "optimize"
        /\ run' = [run EXCEPT !.stages = Append(@, "translate"),
                              !.out_unopt = Some(ir)]
        /\ UNCHANGED <<code, opt_ir, delay_info, selected_tab, tests_passed,
                       test_output, entry_points, selected_entry, last_update,
                       disk, opt_file, rx, terminal, caller, exit_status,
                       last_run, iter_log>>

TranslateOk(stdout) ==
    LET ir == FromUtf8Lossy(stdout)
        u == UpdateEntryPoints(ir, selected_entry)
    IN  /\ pc = "translate"
        /\ error_message' = None
        /\ unopt_ir' = ir
        /\ entry_points' = u.entry_points
        /\ selected_entry' = u.selected_entry
        /\ unopt_file' = Some(ir)
        /\ top_arg' = Some(u.entry_points[u.selected_entry + 1])
        /\ pc' = "optimize"
        /\ run' = [run EXCEPT !.stages = Append(@, "translate"),
                              !.out_unopt = Some(ir)]
        /\ UNCHANGED <<code, opt_ir, delay_info, selected_tab, tests_passed,
                       test_output, last_update, disk, opt_file, rx, terminal,
                       caller, exit_status, last_run, iter_log>>

\* fs::write(..).expect(..) of <path>.unopt.ir panicked (line 101)
TranslateWritePanic ==
    /\ pc = "translate"
    /\ Exit("panic")
    /\ UNCHANGED <<disk, unopt_file, opt_file, terminal>>

----------------------------------------------------------------------------
(* Stage 2: opt_main, lines 105-124 *)

\* mutant: the optimize branch was copied from the translate branch and kept
\* its tool name
MutOptimizeFailWrongTool(stderr) ==
    /\ pc = "optimize"
    /\ StageFailed("optimize", IrConverterName, stderr)
    /\ UNCHANGED <<code, unopt_ir, opt_ir, delay_info, selected_tab,
                   test_output, entry_points, selected_entry, last_update,
                   envvars, caller, exit_status, iter_log>>

\* mutant: a non-zero exit of the optimizer is propagated out of main as an
\* error
MutOptimizeFailPropagates(stderr) ==
    /\ pc = "optimize"
    /\ Exit("err")
    /\ UNCHANGED <<disk, unopt_file, opt_file, terminal>>

OptimizeFail(stderr) ==
    /\ pc = "optimize"
    /\ StageFailed("optimize", OptName, stderr)
    /\ UNCHANGED <<code, unopt_ir, opt_ir, delay_info, selected_tab,
                   test_output, entry_points, selected_entry, last_update,
                   envvars, caller, exit_status, iter_log>>

OptimizeOk(stdout) ==
    LET ir == FromUtf8Lossy(stdout)
    IN  /\ pc = "optimize"
        /\ error_message' = None
        /\ opt_ir' = ir
        /\ opt_file' = Some(ir)
        /\ pc' = "analyze"
        /\ run' = [run EXCEPT !.stages = Append(@, "optimize"),
                              !.out_opt = Some(ir)]
        /\ UNCHANGED <<code, unopt_ir, delay_info, selected_tab, tests_passed,
                       test_output, entry_points, selected_entry, last_update,
                       top_arg, disk, unopt_file, rx, terminal, caller,
                       exit_status, last_run, iter_log>>

\* fs::write(..).expect(..) of <path>.opt.ir panicked (line 124)
OptimizeWritePanic ==
    /\ pc = "optimize"
    /\ Exit("panic")
    /\ UNCHANGED <<disk, unopt_file, opt_file, terminal>>

----------------------------------------------------------------------------
(* Stage 3: delay_info_main, lines 127-146 *)

\* mutant: the failure branch also throws the old timing report away
MutAnalyzeFailClearsReport(stderr) ==
    /\ pc = "analyze"
    /\ StageFailed("analyze", DelayName, stderr)
    /\ delay_info' = <<>>
    /\ UNCHANGED <<code, unopt_ir, opt_ir, selected_tab, test_output,
                   entry_points, selected_entry, last_update, envvars,
                   caller, exit_status, iter_log>>

AnalyzeFail(stderr) ==
    /\ pc = "analyze"
    /\ StageFailed("analyze", DelayName, stderr)
    /\ UNCHANGED <<code, unopt_ir, opt_ir, delay_info, selected_tab,
                   test_output, entry_points, selected_entry, last_update,
                   envvars, caller, exit_status, iter_log>>

\* success; interpreter_present is Path::new(&interpreter_path).exists()
AnalyzeOk(stdout, interpreter_present) ==
    /\ pc = "analyze"
    /\ error_message' = None
    /\ delay_info' = FromUtf8Lossy(stdout)
    /\ IF interpreter_present
       THEN /\ pc' = "test"
            /\ run' = [run EXCEPT !.stages = Append(@, "analyze")]
            /\ UNCHANGED <<top_arg, last_run>>
       ELSE /\ pc' = ReturnPc(caller)
            /\ top_arg' = None
            /\ run' = [run EXCEPT !.stages = Append(@, "analyze"),
                                  !.active = FALSE]
            /\ last_run' = "ok"
    /\ UNCHANGED <<code, unopt_ir, opt_ir, selected_tab, tests_passed,
                   test_output, entry_points, selected_entry, last_update,
                   envvars, caller, exit_status, iter_log>>

----------------------------------------------------------------------------
(* Stage 4: dslx_interpreter_main, lines 147-172 *)

\* mutant: tests_passed = Some(true) is assigned before the exit status is
\* looked at and the failure branch does not take it back
MutTestFailReportsPass(stderr) ==
    /\ pc = "test"
    /\ error_message' = Some(FormatError(InterpName, stderr))
    /\ tests_passed' = Some(TRUE)
    /\ pc' = ReturnPc(caller)
    /\ top_arg' = None
    /\ run' = [run EXCEPT !.active = FALSE,
                          !.stages = Append(@, "test"),
                          !.failed = "test"]
    /\ last_run' = "failed"
    /\ UNCHANGED <<code, unopt_ir, opt_ir, delay_info, selected_tab,
                   test_output, entry_points, selected_entry, last_update,
                   envvars, caller, exit_status, iter_log>>

\* mutant: the failure branch forgets to set error_message
MutTestFailNoError(stderr) ==
    /\ pc = "test"
    /\ tests_passed' = Some(FALSE)
    /\ pc' = ReturnPc(caller)
    /\ top_arg' = None
    /\ run' = [run EXCEPT !.active = FALSE,
                          !.stages = Append(@, "test"),
                          !.failed = "test"]
    /\ last_run' = "failed"
    /\ UNCHANGED <<code, unopt_ir, opt_ir, delay_info, error_message,
                   selected_tab, test_output, entry_points, selected_entry,
                   last_update, envvars, caller, exit_status, iter_log>>

TestFail(stderr) ==
    /\ pc = "test"
    /\ StageFailed("test", InterpName, stderr)
    /\ UNCHANGED <<code, unopt_ir, opt_ir, delay_info, selected_tab,
                   test_output, entry_points, selected_entry, last_update,
                   envvars, caller, exit_status, iter_log>>

\* mutant: the success branch does not store the captured output
MutTestOkNoOutput(stdout, stderr) ==
    /\ pc = "test"
    /\ tests_passed' = Some(TRUE)
    /\ pc' = ReturnPc(caller)
    /\ top_arg' = None
    /\ run' = [run EXCEPT !.stages = Append(@, "test"),
                          !.active = FALSE]
    /\ last_run' = "ok"
    /\ UNCHANGED <<code, unopt_ir, opt_ir, delay_info, error_message,
                   selected_tab, test_output, entry_points, selected_entry,
                   last_update, envvars, caller, exit_status, iter_log>>

TestOk(stdout, stderr) ==
    LET output == IF stdout = <<>> THEN stderr ELSE stdout
    IN  /\ pc = "test"
            /\ tests_passed' = Some(TRUE)
        /\ test_output' = Some(FromUtf8Lossy(output))
        /\ pc' = ReturnPc(caller)
        /\ top_arg' = None
        /\ run' = [run EXCEPT !.stages = Append(@, "test"),
                              !.active = FALSE]
        /\ last_run' = "ok"
        /\ UNCHANGED <<code, unopt_ir, opt_ir, delay_info, error_message,
                       selected_tab, entry_points, selected_entry,
                       last_update, envvars, caller, exit_status, iter_log>>

\* Command::output() could not start the tool of the current stage
SpawnPanic ==
    /\ pc \in {"translate", "optimize", "analyze", "test"}
    /\ Exit("panic")
    /\ UNCHANGED <<disk, unopt_file, opt_file, terminal>>

----------------------------------------------------------------------------
(* main, lines 228-232: first read of the file and the startup run *)

BootOk ==
    /\ pc = "boot"
    /\ code' = disk
    /\ CheckAndRunConversion(selected_entry, "startup")
    /\ UNCHANGED <<unopt_ir, opt_ir, delay_info, error_message, selected_tab,
                   test_output, last_update, envvars, exit_status, last_run,
                   iter_log>>

\* fs::read_to_string(file_path)? failed (line 230)
BootReadErr ==
    /\ pc = "boot"
    /\ Exit("err")
    /\ UNCHANGED <<disk, unopt_file, opt_file, terminal>>

----------------------------------------------------------------------------
(* The loop, lines 234-415 *)

\* terminal.draw(..)? : the renderer reads the App; a new iteration begins
Draw ==
    /\ pc = "draw"
    /\ pc' = "recv"
    /\ iter_log' = <<>>
    /\ run' = NoRun
    /\ UNCHANGED <<appvars, top_arg, envvars, caller, exit_status, last_run>>

DrawErr ==
    /\ pc = "draw"
    /\ Exit("err")
    /\ UNCHANGED <<disk, unopt_file, opt_file, terminal>>

\* rx.try_recv() is Err(Empty) (line 367)
RecvEmpty ==
    /\ pc = "recv"
    /\ rx = <<>>
    /\ pc' = "key"
    /\ UNCHANGED <<appvars, top_arg, envvars, caller, exit_status, run,
                   last_run, iter_log>>

\* mutant: while-let instead of if-let, the channel is drained
MutRecvOtherDrain ==
    /\ pc = "recv"
    /\ rx # <<>>
    /\ ~IsModify(Head(rx))
    /\ rx' = Tail(rx)
    /\ pc' = "recv"
    /\ iter_log' = Append(iter_log, "file")
    /\ UNCHANGED <<appvars, top_arg, disk, unopt_file, opt_file, terminal,
                   caller, exit_status, run, last_run>>

\* mutant: the kind of the event is not looked at, every received
\* notification reloads
MutRecvOtherReloads ==
    /\ pc = "recv"
    /\ rx # <<>>
    /\ ~IsModify(Head(rx))
    /\ rx' = Tail(rx)
    /\ code' = disk
    /\ last_update' = Some("t1")
    /\ CheckAndRunConversion(selected_entry, "reload")
    /\ iter_log' = Append(iter_log, "file")
    /\ UNCHANGED <<unopt_ir, opt_ir, delay_info, error_message, selected_tab,
                   test_output, disk, unopt_file, opt_file, terminal,
                   exit_status, last_run>>

\* a notification that is not Ok(Event{kind: Modify(_)}) is dropped
RecvOther ==
    /\ pc = "recv"
    /\ rx # <<>>
    /\ ~IsModify(Head(rx))
    /\ rx' = Tail(rx)
    /\ pc' = "key"
    /\ iter_log' = Append(iter_log, "file")
    /\ UNCHANGED <<appvars, top_arg, disk, unopt_file, opt_file, terminal,
                   caller, exit_status, run, last_run>>

\* mutant: the reload is started from the watcher's callback, without
\* waiting for the loop to come back to try_recv
MutRecvModifyDuringRun(now) ==
    /\ pc \in {"recv", "translate", "optimize", "analyze", "test"}
    /\ rx # <<>>
    /\ IsModify(Head(rx))
    /\ rx' = Tail(rx)
    /\ code' = disk
    /\ last_update' = Some(now)
    /\ CheckAndRunConversion(selected_entry, "reload")
    /\ iter_log' = Append(iter_log, "file")
    /\ UNCHANGED <<unopt_ir, opt_ir, delay_info, error_message, selected_tab,
                   test_output, disk, unopt_file, opt_file, terminal,
                   exit_status, last_run>>

\* Reload, lines 374-377
RecvModify(now) ==
    /\ pc = "recv"
    /\ rx # <<>>
    /\ IsModify(Head(rx))
    /\ rx' = Tail(rx)
    /\ code' = disk
    /\ last_update' = Some(now)
    /\ CheckAndRunConversion(selected_entry, "reload")
    /\ iter_log' = Append(iter_log, "file")
    /\ UNCHANGED <<unopt_ir, opt_ir, delay_info, error_message, selected_tab,
                   test_output, disk, unopt_file, opt_file, terminal,
                   exit_status, last_run>>

\* fs::read_to_string(file_path)? failed (line 374)
RecvModifyReadErr ==
    /\ pc = "recv"
    /\ rx # <<>>
    /\ IsModify(Head(rx))
    /\ Exit("err")
    /\ UNCHANGED <<disk, unopt_file, opt_file, terminal>>

\* event::poll(50ms)? returned false, or event::read()? was not a key event
PollNoKey ==
    /\ pc = "key"
    /\ pc' = "draw"
    /\ run' = NoRun
    /\ UNCHANGED <<appvars, top_arg, envvars, caller, exit_status, last_run,
                   iter_log>>

\* event::poll(..)? or event::read()? failed (lines 382-383)
PollErr ==
    /\ pc = "key"
    /\ Exit("err")
    /\ UNCHANGED <<disk, unopt_file, opt_file, terminal>>

\* a key that changes only the tab, or nothing: f is the new selected_tab
KeyHandled(f) ==
    /\ pc = "key"
    /\ selected_tab' = f
    /\ pc' = "draw"
    /\ iter_log' = Append(iter_log, "key")
    /\ run' = NoRun
    /\ UNCHANGED <<code, unopt_ir, opt_ir, delay_info, error_message,
                   tests_passed, test_output, entry_points, selected_entry,
                   last_update, top_arg, envvars, caller, exit_status,
                   last_run>>

\* KeyCode::Tab (line 386)
KeyTab == KeyHandled((selected_tab + 1) % 3)

\* Ctrl-u / Ctrl-o / Ctrl-d (lines 388-396)
KeyCtrl(tab) == KeyHandled(tab)

\* any other key: the _ => {} arm
KeyIgnored == KeyHandled(selected_tab)

\* the guards of the Left and Right arms (lines 398, 404)
CanMoveLeft == selected_entry > 0

\* mutant: <= instead of < in the guard of the Right arm
MutCanMoveRightInclusive == selected_entry <= Len(entry_points) - 1

CanMoveRight == selected_entry < Len(entry_points) - 1

\* Reselect: selected_entry was changed, then check_and_run_conversion()
Reselect(sel) ==
    /\ CheckAndRunConversion(sel, "reselect")
    /\ UNCHANGED <<code, unopt_ir, opt_ir, delay_info, error_message,
                   selected_tab, test_output, last_update, envvars,
                   exit_status, last_run>>

\* a Left or Right press at the boundary: the arm's if is false
NoMove ==
    /\ pc' = "draw"
    /\ run' = NoRun
    /\ UNCHANGED <<appvars, top_arg, envvars, caller, exit_status,
                   last_run>>

\* KeyCode::Left (lines 397-402)
KeyLeft ==
    /\ pc = "key"
    /\ iter_log' = Append(iter_log, "Left")
    /\ IF CanMoveLeft THEN Reselect(selected_entry - 1) ELSE NoMove

\* KeyCode::Right (lines 403-408)
KeyRight ==
    /\ pc = "key"
    /\ iter_log' = Append(iter_log, "Right")
    /\ IF CanMoveRight THEN Reselect(selected_entry + 1) ELSE NoMove

\* KeyCode::Char('q') / KeyCode::Esc: break (lines 409-410)
KeyQuit ==
    /\ pc = "key"
    /\ pc' = "teardown"
    /\ iter_log' = Append(iter_log, "key")
    /\ run' = NoRun
    /\ UNCHANGED <<appvars, top_arg, envvars, caller, exit_status,
                   last_run>>

\* lines 417-420
Teardown ==
    /\ pc = "teardown"
    /\ terminal' = "restored"
    /\ Exit("ok")
    /\ UNCHANGED <<disk, unopt_file, opt_file>>

----------------------------------------------------------------------------
(* The watcher thread and the outside world *)

\* the watched file is rewritten (possibly with the same content); the
\* watcher sends Ok(Event{kind: Modify(_)})
FileEdited(content) ==
    /\ exit_status = "running"
    /\ Len(rx) < MaxQueue
    /\ disk' = content
    /\ rx' = Append(rx, "Modify")
    /\ UNCHANGED <<appvars, top_arg, unopt_file, opt_file, terminal, pc,
                   caller, exit_status, run, last_run, iter_log>>

\* the watcher sends a notification of another kind, or an Err
WatcherOther(e) ==
    /\ exit_status = "running"
    /\ Len(rx) < MaxQueue
    /\ ~IsModify(e)
    /\ rx' = Append(rx, e)
    /\ UNCHANGED <<appvars, top_arg, disk, unopt_file, opt_file, terminal,
                   pc, caller, exit_status, run, last_run, iter_log>>

----------------------------------------------------------------------------

Next ==
    \/ BootOk
    \/ BootReadErr
    \/ \E e \in Stderrs : TranslateFail(e)
    \/ \E o \in TranslateStdouts : TranslateOk(o)
    \/ TranslateWritePanic
    \/ \E e \in Stderrs : OptimizeFail(e)
    \/ \E o \in OptStdouts : OptimizeOk(o)
    \/ OptimizeWritePanic
    \/ \E e \in Stderrs : AnalyzeFail(e)
    \/ \E o \in DelayStdouts, present \in BOOLEAN : AnalyzeOk(o, present)
    \/ \E e \in Stderrs : TestFail(e)
    \/ \E o \in InterpStdouts, e \in Stderrs : TestOk(o, e)
    \/ SpawnPanic
    \/ Draw
    \/ DrawErr
    \/ RecvEmpty
    \/ RecvOther
    \/ \E now \in Timestamps : RecvModify(now)
    \/ RecvModifyReadErr
    \/ PollNoKey
    \/ PollErr
    \/ KeyTab
    \/ \E tab \in 0..2 : KeyCtrl(tab)
    \/ KeyIgnored
    \/ KeyLeft
    \/ KeyRight
    \/ KeyQuit
    \/ Teardown
    \/ \E c \in FileContents : FileEdited(c)
    \/ \E e \in EventResults : WatcherOther(e)

Spec == Init /\ [][Next]_vars

----------------------------------------------------------------------------
(* Properties *)

StagePcs == {"translate", "optimize", "analyze", "test"}

\* run_conversion has returned and the loop has not yet moved on
RunReturned == ~run.active /\ IsSome(run.pre)

\* the App fields as they were when run_conversion was entered
Pre == run.pre[1]

RunFailedAt(stage) == RunReturned /\ run.failed = stage

\* C1: once check_and_run_conversion has been called for the first time, in
\* every state of the live process (in particular in every state the renderer
\* reads) the entry-point list is non-empty and selected_entry is an index of
\* it.
C1_EntryIndexValid ==
    caller # "none" =>
        /\ Len(entry_points) >= 1
        /\ selected_entry >= 0
        /\ selected_entry < Len(entry_points)

\* a Reselect run on a three-entry list whose translate output has no
\* declaration: the list shrank to the fallback and the index went back to 0
C1_Witness ==
    /\ pc = "draw"
    /\ caller = "reselect"
    /\ RunReturned
    /\ Len(Pre.entry_points) = 3
    /\ entry_points = <<FallbackEntry>>
    /\ selected_entry = 0

\* C2 as stated: after a run that failed at analyze, unopt_ir and opt_ir are
\* this run's translate and optimize outputs, delay_info is what it was before
\* the run, error_message is set and tests_passed is what it was before the
\* run.
C2_AsStated ==
    RunFailedAt("analyze") =>
        /\ Some(unopt_ir) = run.out_unopt
        /\ Some(opt_ir) = run.out_opt
        /\ delay_info = Pre.delay_info
        /\ IsSome(error_message)
        /\ tests_passed = Pre.tests_passed

\* C2 amended: as C2, except that tests_passed is Some(false) whatever it was
\* before the run.
C2_AnalyzeFailure ==
    RunFailedAt("analyze") =>
        /\ Some(unopt_ir) = run.out_unopt
        /\ Some(opt_ir) = run.out_opt
        /\ delay_info = Pre.delay_info
        /\ IsSome(error_message)
        /\ tests_passed = Some(FALSE)

\* a run fails at analyze after a run that passed its tests and left a
\* timing report and another optimized artifact
C2_Witness ==
    /\ RunFailedAt("analyze")
    /\ Pre.tests_passed = Some(TRUE)
    /\ Pre.delay_info # <<>>
    /\ Pre.opt_ir # <<>>
    /\ Pre.opt_ir # opt_ir
    /\ Pre.unopt_ir # unopt_ir

\* C3: after a run that failed at translate, unopt_ir, opt_ir, delay_info and
\* entry_points are what they were when run_conversion was entered; after a
\* run that failed at optimize, unopt_ir is this run's translate output and
\* opt_ir and delay_info are what they were before.  error_message is set in
\* both cases.
C3_EarlyFailureFrame ==
    /\ RunFailedAt("translate") =>
           /\ unopt_ir = Pre.unopt_ir
           /\ opt_ir = Pre.opt_ir
           /\ delay_info = Pre.delay_info
           /\ entry_points = Pre.entry_points
           /\ IsSome(error_message)
    /\ RunFailedAt("optimize") =>
           /\ Some(unopt_ir) = run.out_unopt
           /\ opt_ir = Pre.opt_ir
           /\ delay_info = Pre.delay_info
           /\ IsSome(error_message)

\* a run fails at translate while all three artifacts of an earlier run and
\* a two-entry list are in the state
C3_Witness ==
    /\ RunFailedAt("translate")
    /\ unopt_ir # <<>>
    /\ opt_ir # <<>>
    /\ delay_info # <<>>
    /\ Len(entry_points) = 2

\* C4: whenever no run is in progress and a run has completed, error_message
\* is set exactly if the most recently completed run failed.
C4_ErrorIffLastRunFailed ==
    (~run.active /\ last_run # "none") =>
        (IsSome(error_message) <=> last_run = "failed")

\* a run in which all four stages succeeded, right after a failed run
C4_Witness ==
    /\ RunReturned
    /\ run.stages = Stages
    /\ run.failed = "none"
    /\ Pre.tests_passed = Some(FALSE)
    /\ Pre.delay_info = <<>>
    /\ error_message = None

\* C5 as stated: as long as the test stage has not been attempted,
\* tests_passed is None: if it was None when run_conversion was entered and
\* this run has not attempted the test stage, it is still None.
C5_AsStated ==
    (IsSome(run.pre) /\ Pre.tests_passed = None /\ run.stages # Stages) =>
        tests_passed = None

\* C5 amended: tests_passed is None exactly until the first run starts; it is
\* Some(false) while a run is in progress and after a run in which the test
\* stage did not run; it is Some(true) only when the most recent run
\* attempted the test stage and that stage exited zero.
C5_TestOutcome ==
    /\ tests_passed = None <=> caller = "none"
    /\ run.active => tests_passed = Some(FALSE)
    /\ (RunReturned /\ run.stages # Stages) => tests_passed = Some(FALSE)
    /\ tests_passed = Some(TRUE) =>
           /\ last_run = "ok"
           /\ IsSome(run.pre) => (run.stages = Stages /\ run.failed = "none")

\* the interpreter binary is absent: a run whose three stages all succeeded,
\* after a run that had passed its tests
C5_Witness ==
    /\ RunReturned
    /\ run.failed = "none"
    /\ run.stages = <<"translate", "optimize", "analyze">>
    /\ Pre.tests_passed = Some(TRUE)
    /\ tests_passed = Some(FALSE)

\* C6 as stated: in every state the renderer reads, test_output is present
\* exactly if tests_passed is Some(true).
C6_AsStated ==
    pc = "draw" => (IsSome(test_output) <=> tests_passed = Some(TRUE))

\* C6 amended: in every state the renderer reads, if tests_passed is
\* Some(true) then test_output is present.
C6_OutputWhenPassed ==
    (pc = "draw" /\ tests_passed = Some(TRUE)) => IsSome(test_output)

\* the renderer reads a state whose last run passed its tests with an empty
\* stdout, so that the output text is the captured stderr
C6_Witness ==
    /\ pc = "draw"
    /\ tests_passed = Some(TRUE)
    /\ RunReturned
    /\ Pre.tests_passed = Some(FALSE)
    /\ \E e \in Stderrs : test_output = Some(FromUtf8Lossy(e))

\* C7: error_message is never set while tests_passed is Some(true).
C7_NoErrorWhenPassed ==
    ~(IsSome(error_message) /\ tests_passed = Some(TRUE))

\* the renderer reads the state left by a failing run that followed a
\* passing one
C7_Witness ==
    /\ pc = "draw"
    /\ RunReturned
    /\ run.failed = "test"
    /\ Pre.tests_passed = Some(TRUE)
    /\ IsSome(error_message)

Last(seq) == seq[Len(seq)]

\* C8: a Left press at index 0 and a Right press at the last index change no
\* App field and start no run.
C8_BoundaryNoOp ==
    [][(\/ (iter_log' = Append(iter_log, "Left") /\ selected_entry = 0)
        \/ (/\ iter_log' = Append(iter_log, "Right")
            /\ selected_entry = Len(entry_points) - 1))
       => (UNCHANGED appvars /\ pc' = "draw" /\ ~run'.active)]_vars

\* Right was pressed at the last index of a three-entry list and no run
\* followed
C8_Witness ==
    /\ pc = "draw"
    /\ iter_log # <<>>
    /\ Last(iter_log) = "Right"
    /\ run = NoRun
    /\ Len(entry_points) = 3
    /\ selected_entry = 2

\* the stages of a run are invoked in order, each at most once, from translate
StagesInOrder ==
    /\ Len(run.stages) <= Len(Stages)
    /\ \A i \in 1..Len(run.stages) : run.stages[i] = Stages[i]
    /\ pc \in StagePcs =>
           /\ run.active
           /\ run.failed = "none"
           /\ pc = Stages[Len(run.stages) + 1]
    /\ run.failed # "none" =>
           /\ run.stages # <<>>
           /\ Last(run.stages) = run.failed
           /\ pc \notin StagePcs

\* a stage is started from outside a run only as translate, by a file-change
\* notification, a key or the startup call
RunStartsAtTranslate ==
    (pc \notin StagePcs /\ pc' \in StagePcs) =>
        /\ pc' = "translate"
        /\ run'.stages = <<>>
        /\ pc = "boot" \/ iter_log' # iter_log

\* C9: every run invokes translate, optimize, analyze, test in this order,
\* each at most once and starting at translate; after a stage has failed no
\* stage is invoked until a file-change notification or a key starts a new
\* run.
C9_StageOrder == []StagesInOrder /\ [][RunStartsAtTranslate]_vars

\* a Reload run failed at analyze and the loop went on to poll the keyboard
C9_Witness ==
    /\ RunFailedAt("analyze")
    /\ caller = "reload"
    /\ pc = "key"
    /\ run.stages = <<"translate", "optimize", "analyze">>

\* C10: in one loop iteration at most one notification is taken from the
\* channel and at most one key event is read, the notification first; while
\* the Reload of that notification runs, no key of the iteration has been
\* dispatched.
C10_OneEventEachPerIteration ==
    /\ Cardinality({i \in 1..Len(iter_log) : iter_log[i] = "file"}) <= 1
    /\ Cardinality({i \in 1..Len(iter_log) : iter_log[i] # "file"}) <= 1
    /\ Len(iter_log) = 2 => iter_log[1] = "file"
    /\ (run.active /\ caller = "reload") => iter_log = <<"file">>
    /\ (iter_log # <<>> /\ Last(iter_log) # "file") =>
           \/ pc \in {"draw", "teardown"}
           \/ pc \in StagePcs /\ caller = "reselect"

\* an iteration took one notification, then a Right key whose Reselect run
\* has returned, while another notification stayed in the channel
C10_Witness ==
    /\ pc = "draw"
    /\ iter_log = <<"file", "Right">>
    /\ rx # <<>>
    /\ RunReturned
    /\ caller = "reselect"

----------------------------------------------------------------------------
(* Runs and events are serialised by the single loop thread *)

\* seq is cur, or cur with one more element at the end
GrownByAtMostOne(cur, seq) ==
    \/ seq = cur
    \/ Len(seq) = Len(cur) + 1 /\ SubSeq(seq, 1, Len(cur)) = cur

\* a step taken while a run is in progress, the process staying alive:
\* nothing is taken from the channel, no event is counted, no reload and no
\* other run begins; the run only moves on by one stage or returns
RunUndisturbed ==
    (run.active /\ exit_status' = "running") =>
        /\ GrownByAtMostOne(rx, rx')
        /\ iter_log' = iter_log
        /\ code' = code
        /\ last_update' = last_update
        /\ caller' = caller
        /\ run'.pre = run.pre
        /\ GrownByAtMostOne(run.stages, run'.stages)

\* C11: the watcher enqueues at any time, yet a run is in progress exactly
\* while the loop thread is inside a stage, and while it is, no notification
\* is dequeued, no key is dispatched and no other run starts: the run reaches
\* its end or its first failing stage before the next event is considered.
C11_OneRunAtATime ==
    /\ [](run.active <=> pc \in StagePcs)
    /\ [][RunUndisturbed]_vars

\* two notifications are waiting while a run started by a key is in progress
C11_Witness ==
    /\ run.active
    /\ pc = "analyze"
    /\ caller = "reselect"
    /\ rx = <<"Modify", "Other">>

----------------------------------------------------------------------------
(* The text of the error *)

\* the name written in front of the message by each stage's failure branch
ToolNames == <<IrConverterName, OptName, DelayName, InterpName>>

\* the stage names, spelled out as text
StageLabels == << <<"t","r","a","n","s","l","a","t","e">>,
                  <<"o","p","t","i","m","i","z","e">>,
                  <<"a","n","a","l","y","z","e">>,
                  <<"t","e","s","t">> >>

\* C12 as stated: after a run failed at a stage, the last error is the stage's
\* name, a colon and a space, and the bytes the tool wrote to stderr, verbatim.
C12_AsStated ==
    \A i \in 1..Len(Stages) :
        RunFailedAt(Stages[i]) =>
            \E e \in Stderrs :
                error_message = Some(StageLabels[i] \o <<":", " ">> \o e)

\* C12: after a run failed at a stage, the last error is the name of that
\* stage's executable (ir_converter_main, opt_main, delay_info_main,
\* dslx_interpreter_main), a colon and a space, and the tool's stderr decoded
\* as UTF-8 with every invalid byte replaced by U+FFFD.
C12_ToolPrefixedError ==
    \A i \in 1..Len(Stages) :
        RunFailedAt(Stages[i]) =>
            \E e \in Stderrs :
                error_message =
                    Some(ToolNames[i] \o <<":", " ">> \o FromUtf8Lossy(e))

\* the optimizer has failed with a stderr holding an invalid byte
C12_Witness ==
    /\ RunFailedAt("optimize")
    /\ error_message = Some(OptName \o <<":", " ", "e", "uFFFD">>)

----------------------------------------------------------------------------
(* Leaving the loop *)

\* the positions of the loop thread between two stages of a run
LoopPcs == {"draw", "recv", "key", "teardown"}

\* C13 as stated: whenever the process leaves the event loop (quit key, failed
\* re-read of the file during a reload, failed draw, failed key poll), the
\* terminal has been restored (raw mode off, alternate screen left, cursor
\* shown) when it exits.
C13_AsStated ==
    [][(pc \in LoopPcs /\ pc' = "exited") => terminal' = "restored"]_vars

\* a stage has just reported a non-zero exit
StageFailureStep == run.active /\ run'.failed # "none"

\* the step of a stage's failure branch leaves the process running and hands
\* the loop thread back to the loop, with the failure recorded in the state
FailureOnlyUpdatesState ==
    StageFailureStep =>
        /\ exit_status' = "running"
        /\ pc' \in {"draw", "key"}
        /\ IsSome(error_message')
        /\ tests_passed' = Some(FALSE)
        /\ terminal' = terminal

\* the process ends inside a stage only by the panic of a failed spawn or a
\* failed write of an intermediate file
StageExitIsPanic ==
    (pc \in StagePcs /\ pc' = "exited") => exit_status' = "panic"

\* the loop is left for the teardown only by the quit key, and the process
\* ends otherwise only by an I/O error (a returned Err or a panic of expect)
LoopEndsOnQuitOrError ==
    /\ (pc # "teardown" /\ pc' = "teardown") =>
            (pc = "key" /\ iter_log' = Append(iter_log, "key"))
    /\ (pc # "exited" /\ pc' = "exited") =>
            \/ pc = "teardown" /\ exit_status' = "ok"
            \/ pc # "teardown" /\ exit_status' \in {"err", "panic"}

\* C14: a stage that exits non-zero never ends the event loop: the failure
\* only updates the state and the loop goes on to its next step; the loop
\* ends only on a quit key or on a fatal I/O failure.
C14_FailureKeepsLoopRunning ==
    /\ [][FailureOnlyUpdatesState]_vars
    /\ [][StageExitIsPanic]_vars
    /\ [][LoopEndsOnQuitOrError]_vars

\* after a failed optimizer the loop has gone through two further iterations
\* and is drawing again
C14_Witness ==
    /\ last_run = "failed"
    /\ error_message = Some(OptName \o <<":", " ", "e", "uFFFD">>)
    /\ ~IsSome(run.pre)
    /\ iter_log = <<"key">>
    /\ pc = "draw"
    /\ exit_status = "running"

----------------------------------------------------------------------------
(* update_entry_points as a function of the text: a specification that      *)
(* applies it to texts built from a bounded set of lines                    *)

MaxLines == 3

MaxSelected == 2

\* the lines a text is made of
ExtractLines ==
    { <<"f","n"," ","a">>,
      <<"f","n"," ","b","2">>,
      <<"f","n"," ","a","(","x">>,
      <<"f","n"," ","1">>,
      <<"f","n","\t","a">>,
      <<"f","n"," "," ","a">>,
      <<" ","f","n"," ","a">>,
      <<"x"," ","f","n"," ","a">>,
      <<"f","n","a">>,
      <<"f","n"," ">>,
      <<>> }

RECURSIVE JoinLines(_)
\* the lines separated by newlines
JoinLines(lines) ==
    IF Len(lines) = 0 THEN <<>>
    ELSE IF Len(lines) = 1 THEN lines[1]
    ELSE lines[1] \o <<"\n">> \o JoinLines(Tail(lines))

ExtractTexts ==
    { JoinLines(ls) : ls \in UNION { [1..n -> ExtractLines] : n \in 0..MaxLines } }

\* self.unopt_ir holds a text and update_entry_points is about to be called
InitExtract ==
    /\ code = <<>>
    /\ unopt_ir \in ExtractTexts
    /\ opt_ir = <<>>
    /\ delay_info = <<>>
    /\ error_message = None
    /\ selected_tab = 0
    /\ tests_passed = None
    /\ test_output = None
    /\ entry_points = <<>>
    /\ selected_entry \in 0..MaxSelected
    /\ last_update = None
    /\ top_arg = None
    /\ disk \in FileContents
    /\ unopt_file = None
    /\ opt_file = None
    /\ rx = <<>>
    /\ terminal = "raw"
    /\ pc = "extract"
    /\ caller = "none"
    /\ exit_status = "running"
    /\ run = NoRun
    /\ last_run = "none"
    /\ iter_log = <<>>

\* App::update_entry_points, lines 57-71
ApplyUpdateEntryPoints ==
    LET u == UpdateEntryPoints(unopt_ir, selected_entry)
    IN  /\ pc = "extract"
        /\ entry_points' = u.entry_points
        /\ selected_entry' = u.selected_entry
        /\ pc' = "extracted"
        /\ UNCHANGED <<code, unopt_ir, opt_ir, delay_info, error_message,
                       selected_tab, tests_passed, test_output, last_update,
                       top_arg, envvars, caller, exit_status, run, last_run,
                       iter_log>>

NextExtract == ApplyUpdateEntryPoints

SpecExtract == InitExtract /\ [][NextExtract]_vars

RECURSIVE SplitLines(_)
\* the text cut at its newlines
SplitLines(text) ==
    IF \A i \in 1..Len(text) : text[i] # "\n"
    THEN <<text>>
    ELSE LET k == CHOOSE i \in 1..Len(text) :
                      /\ text[i] = "\n"
                      /\ \A j \in 1..(i - 1) : text[j] # "\n"
         IN  <<SubSeq(text, 1, k - 1)>> \o SplitLines(SubSeq(text, k + 1, Len(text)))

\* the longest prefix of s made of characters of set
PrefixIn(s, set) ==
    LET n == CHOOSE k \in 0..Len(s) :
                 /\ \A j \in 1..k : s[j] \in set
                 /\ (k < Len(s) => s[k + 1] \notin set)
    IN  SubSeq(s, 1, n)

Drop(s, n) == SubSeq(s, n + 1, Len(s))

Whitespace == {" ", "\t"}

\* the name declared by a line read as "fn, whitespace, identifier" (any run
\* of spaces and tabs, any run of word characters): one name, or none
NameAsStated(line) ==
    LET rest == Drop(line, 2)
        name == Drop(rest, Len(PrefixIn(rest, Whitespace)))
    IN  IF /\ Len(line) >= 4
           /\ SubSeq(line, 1, 2) = <<"f", "n">>
           /\ line[3] \in Whitespace
           /\ name # <<>>
           /\ name[1] \in WordChars
        THEN <<PrefixIn(name, WordChars)>>
        ELSE <<>>

\* the name declared by a line read as "fn, one space, word characters"
NameOneSpace(line) ==
    IF /\ Len(line) >= 4
       /\ SubSeq(line, 1, 3) = <<"f", "n", " ">>
       /\ line[4] \in WordChars
    THEN <<PrefixIn(Drop(line, 3), WordChars)>>
    ELSE <<>>

RECURSIVE NamesAsStated(_)
NamesAsStated(lines) ==
    IF lines = <<>> THEN <<>>
    ELSE NameAsStated(Head(lines)) \o NamesAsStated(Tail(lines))

RECURSIVE NamesOneSpace(_)
NamesOneSpace(lines) ==
    IF lines = <<>> THEN <<>>
    ELSE NameOneSpace(Head(lines)) \o NamesOneSpace(Tail(lines))

OrFallback(names) == IF names = <<>> THEN <<FallbackEntry>> ELSE names

\* C15 as stated: the extracted list is the identifiers of the lines that
\* start, unindented, with fn followed by whitespace and an identifier, in
\* source order with duplicates kept, or the single fallback name if there is
\* no such line.
C15_AsStated ==
    pc = "extracted" =>
        entry_points = OrFallback(NamesAsStated(SplitLines(unopt_ir)))

\* C15: the extracted list is, in source order with duplicates kept, the
\* names of the lines that start, unindented, with fn, exactly one space and
\* at least one word character (letter, digit or underscore), each name being
\* the longest run of word characters after that space; if there is no such
\* line the list is the single fallback name.
C15_ExtractionPerLine ==
    pc = "extracted" =>
        entry_points = OrFallback(NamesOneSpace(SplitLines(unopt_ir)))

\* the same declaration twice with an indented one between them
C15_Witness ==
    /\ pc = "extracted"
    /\ unopt_ir = JoinLines(<< <<"f","n"," ","a">>, <<" ","f","n"," ","a">>,
                                <<"f","n"," ","a","(","x">> >>)
    /\ entry_points = << <<"a">>, <<"a">> >>

----------------------------------------------------------------------------
(* What the later stages are given *)

\* the step on which the translator's output is taken: before it
\* selected_entry is the index the run was started with
TopChosenFromNewList ==
    (pc = "translate" /\ pc' = "optimize") =>
        LET eps == ExtractEntryPoints(run'.out_unopt[1])
            idx == IF selected_entry < Len(eps) THEN selected_entry ELSE 0
        IN  /\ unopt_ir' = run'.out_unopt[1]
            /\ entry_points' = eps
            /\ selected_entry' = idx
            /\ top_arg' = Some(eps[idx + 1])

\* C16: in every run that reaches the optimizer, the name passed as --top is
\* the element, at the selected index, of the list extracted from this run's
\* translate output, the selected index being the one the run started with
\* if it is smaller than the length of the new list and 0 otherwise.
C16_TopFromThisRun ==
    /\ [](pc = "optimize" =>
             /\ entry_points = ExtractEntryPoints(run.out_unopt[1])
             /\ top_arg = Some(entry_points[selected_entry + 1]))
    /\ [][TopChosenFromNewList]_vars

\* Right moved the selection to the third of three entries, and this run's
\* translate output declares two: the index was reset and the first is passed
C16_Witness ==
    /\ pc = "optimize"
    /\ caller = "reselect"
    /\ iter_log # <<>>
    /\ Last(iter_log) = "Right"
    /\ Len(Pre.entry_points) = 3
    /\ Len(entry_points) = 2
    /\ selected_entry = 0
    /\ top_arg = Some(<<"a">>)

\* C17: when the optimizer is invoked, the unoptimized intermediate file
\* holds exactly this run's translate output; when the timing tool is
\* invoked, the optimized intermediate file holds exactly this run's
\* optimizer output: no stage reads a file left by an earlier run.
C17_FilesFromThisRun ==
    /\ pc = "optimize" =>
           (IsSome(run.out_unopt) /\ unopt_file = run.out_unopt)
    /\ pc = "analyze" =>
           (IsSome(run.out_opt) /\ opt_file = run.out_opt)

\* the timing tool is about to read the optimized file of this run, which
\* differs from the optimized text of the run before
C17_Witness ==
    /\ pc = "analyze"
    /\ opt_file = run.out_opt
    /\ Pre.opt_ir # <<>>
    /\ Some(Pre.opt_ir) # opt_file
    /\ Pre.unopt_ir # unopt_ir

----------------------------------------------------------------------------
(* The entry points follow the unoptimized text *)

\* a run is started from the loop: update_entry_points of line 176 runs on an
\* unchanged unopt_ir and yields the list that is already there
RerunKeepsList ==
    (pc \in {"recv", "key"} /\ pc' = "translate") =>
        entry_points' = entry_points

\* the translator fails: neither the text nor the list is touched
TranslateFailureKeepsList ==
    (pc = "translate" /\ run'.failed = "translate") =>
        (entry_points' = entry_points /\ unopt_ir' = unopt_ir)

\* C19: from the first call of check_and_run_conversion on, in every state
\* of the loop the entry-point list is the extraction applied to the current
\* unoptimized text; a run that fails at translate leaves the list as it was,
\* although the extraction is run again before the pipeline starts.
C19_ListIsExtractionOfText ==
    /\ [](caller # "none" => entry_points = ExtractEntryPoints(unopt_ir))
    /\ [][RerunKeepsList]_vars
    /\ [][TranslateFailureKeepsList]_vars

\* three declared entries are kept by a run, started by a key, that failed
\* at translate
C19_Witness ==
    /\ RunFailedAt("translate")
    /\ caller = "reselect"
    /\ pc = "draw"
    /\ Len(entry_points) = 3
    /\ entry_points = ExtractEntryPoints(unopt_ir)

----------------------------------------------------------------------------
(* The source text and the artifact shown next to it *)

\* the translator, which reads the watched file itself, has succeeded and its
\* output becomes unopt_ir: the file it read has the content held in code
TranslatedWhatIsHeld ==
    (pc = "translate" /\ pc' = "optimize") => disk = code

\* C20 as stated: the unoptimized text the renderer shows after a run whose
\* translate stage succeeded was produced by translating the file content
\* held in code, also when the file was rewritten between try_recv and a
\* Left/Right key; that is, every translation that succeeds has read a file
\* whose content is the one held in code.
C20_AsStated ==
    [][TranslatedWhatIsHeld]_vars

----------------------------------------------------------------------------
(* Progress of the loop: a specification of the runs in which the user does *)
(* not quit, no I/O operation fails and every tool terminates, with the     *)
(* loop thread scheduled fairly                                             *)

\* what the translator prints in these runs
LiveTranslateStdouts == {IrAB}

\* what the optimizer prints in these runs
LiveOptStdouts == {<<"o","1">>}

InQueue(e) == \E i \in 1..Len(rx) : rx[i] = e

\* the watched file is rewritten and the notification sent for it is marked;
\* one notification is followed at a time
FileEditedMarked(content) ==
    /\ exit_status = "running"
    /\ Len(rx) < MaxQueue
    /\ ~InQueue(Marked)
    /\ disk' = content
    /\ rx' = Append(rx, Marked)
    /\ UNCHANGED <<appvars, top_arg, unopt_file, opt_file, terminal, pc,
                   caller, exit_status, run, last_run, iter_log>>

\* the steps of the loop thread that neither fail nor quit
LoopThreadLive ==
    \/ BootOk
    \/ \E e \in Stderrs : TranslateFail(e)
    \/ \E o \in LiveTranslateStdouts : TranslateOk(o)
    \/ \E e \in Stderrs : OptimizeFail(e)
    \/ \E o \in LiveOptStdouts : OptimizeOk(o)
    \/ \E e \in Stderrs : AnalyzeFail(e)
    \/ \E o \in DelayStdouts, present \in BOOLEAN : AnalyzeOk(o, present)
    \/ \E e \in Stderrs : TestFail(e)
    \/ \E o \in InterpStdouts, e \in Stderrs : TestOk(o, e)
    \/ Draw
    \/ RecvEmpty
    \/ RecvOther
    \/ \E now \in Timestamps : RecvModify(now)
    \/ PollNoKey
    \/ KeyIgnored
    \/ KeyLeft
    \/ KeyRight

WatcherLive ==
    \/ \E c \in FileContents : FileEdited(c)
    \/ \E c \in FileContents : FileEditedMarked(c)
    \/ \E e \in EventResults : WatcherOther(e)

NextLive == LoopThreadLive \/ WatcherLive

\* the loop thread is never suspended for ever: every tool terminates, poll
\* returns after 50 ms at the latest, try_recv does not block
SpecLive == Init /\ [][NextLive]_vars /\ WF_vars(LoopThreadLive)

\* the Reload has just begun: file re-read, timestamp set, run started
ReloadStarted ==
    /\ pc = "translate"
    /\ caller = "reload"
    /\ run.active
    /\ run.stages = <<>>
    /\ code = disk
    /\ IsSome(last_update)

\* the step that takes the marked notification is the first step of a Reload
MarkedTakenByReload ==
    (InQueue(Marked) /\ ~InQueue(Marked)') =>
        /\ pc = "recv"
        /\ Head(rx) = Marked
        /\ rx' = Tail(rx)
        /\ code' = disk
        /\ IsSome(last_update')
        /\ pc' = "translate"
        /\ caller' = "reload"
        /\ run'.active /\ run'.stages = <<>>

\* the step that takes a notification of another kind changes no field of
\* the App and starts no run
OtherOnlyConsumed ==
    (pc = "recv" /\ rx # <<>> /\ ~IsModify(Head(rx)) /\ pc' # "recv") =>
        /\ rx' = Tail(rx)
        /\ UNCHANGED appvars
        /\ pc' = "key"
        /\ run' = run
        /\ ~run'.active

\* C18: if the user does not quit, no I/O operation fails and every tool
\* terminates, a Modify notification placed in the channel is eventually
\* taken from it, by a step that re-reads the file, sets the timestamp and
\* starts a run, and that run comes to its end; a notification of another
\* kind is consumed without a change of any App field and without a run.
C18_ModifyEventuallyReloads ==
    /\ InQueue(Marked) ~> (~InQueue(Marked) /\ ReloadStarted)
    /\ ReloadStarted ~> (caller = "reload" /\ RunReturned)
    /\ [][MarkedTakenByReload]_vars
    /\ [][OtherOnlyConsumed]_vars

\* a Reload has begun for a notification that waited behind a key-started
\* run; a notification of another kind is still waiting
C18_Witness ==
    /\ ReloadStarted
    /\ iter_log = <<"file">>
    /\ rx = <<"Other">>
    /\ Pre.unopt_ir # <<>>
    /\ last_run = "failed"

====
